---- MODULE Spec2Model ----
(***************************************************************************)
(* Model of src/generate_manifest.py: one run of the script walks the     *)
(* directory tree under ASSETS_DIR, collects the filenames that the        *)
(* compiled pattern matches into manifest[folder][agent], sorts every      *)
(* agent's list by the integer value of the index group, and dumps the     *)
(* manifest as indented JSON into MANIFEST_FILE.                           *)
(*                                                                         *)
(* Strings (filenames, folder names, the JSON text) are sequences of       *)
(* Unicode code points, as a Python str is, so that the pattern matcher,   *)
(* int() and the JSON writer and reader work on characters as the library  *)
(* code does.                                                              *)
(* A Python dict is a sequence of [key, val] records in insertion order.   *)
(***************************************************************************)
EXTENDS Integers, Sequences, FiniteSets, TLC

VARIABLES root, outFile, fileBefore, manifest, pc, folders, folder_name,
          fnames, err, stdout, run, prev

vars == <<root, outFile, fileBefore, manifest, pc, folders, folder_name,
          fnames, err, stdout, run, prev>>

(***************************************************************************)
(* Bounds of the model.                                                    *)
(***************************************************************************)
\* most entries in the whole tree below the root's subdirectories
MaxFiles == 2
\* most runs of the script in one behaviour of SpecRerun
MaxRuns == 2

(***************************************************************************)
(* Characters and names.                                                   *)
(***************************************************************************)
\* the printable ASCII characters, U+0020 to U+007E, in the order of their codes
\* (U+0060, the grave accent, by its name)
Printable == <<" ", "!", "\"", "#", "$", "%", "&", "'", "(", ")", "*", "+", ",", "-", ".", "/",
               "0", "1", "2", "3", "4", "5", "6", "7", "8", "9", ":", ";", "<", "=", ">", "?",
               "@", "A", "B", "C", "D", "E", "F", "G", "H", "I", "J", "K", "L", "M", "N", "O",
               "P", "Q", "R", "S", "T", "U", "V", "W", "X", "Y", "Z", "[", "\\", "]", "^", "_",
               "grave", "a", "b", "c", "d", "e", "f", "g", "h", "i", "j", "k", "l", "m", "n", "o",
               "p", "q", "r", "s", "t", "u", "v", "w", "x", "y", "z", "{", "|", "}", "~">>

\* ord(c) of a printable ASCII character
Ord(c) == 31 + CHOOSE i \in DOMAIN Printable : Printable[i] = c

\* a text of printable ASCII characters as a str: the sequence of its code points
Text(chars) == [i \in DOMAIN chars |-> Ord(chars[i])]

Quote == Ord("\"")
Backslash == Ord("\\")
Underscore == Ord("_")
Space == Ord(" ")
Comma == Ord(",")
Colon == Ord(":")
LeftBrace == Ord("{")
RightBrace == Ord("}")
LeftBracket == Ord("[")
RightBracket == Ord("]")

\* the digit zero of every block of decimal digits (category Nd) of Unicode
\* 14.0; the nine code points behind a zero are its digits one to nine
DigitZeros == {48, 1632, 1776, 1984, 2406, 2534, 2662, 2790, 2918, 3046,
               3174, 3302, 3430, 3558, 3664, 3792, 3872, 4160, 4240, 6112,
               6160, 6470, 6608, 6784, 6800, 6992, 7088, 7232, 7248, 42528,
               43216, 43264, 43472, 43504, 43600, 44016, 65296, 66720, 68912, 69734,
               69872, 69942, 70096, 70384, 70736, 70864, 71248, 71360, 71472, 71904,
               72016, 72784, 73040, 73120, 92768, 92864, 93008, 120782, 120792, 120802,
               120812, 120822, 123200, 123632, 125264, 130032}

\* what \d matches in the str pattern of line 12: every Unicode decimal digit
Digits == UNION {z..(z + 9) : z \in DigitZeros}

\* the literal head of the pattern, line 12
Prefix == Text(<<"o","b","j","_","m","e","s","h","_","p","l","a","c","e","d","_",
                 "a","g","e","n","t">>)

\* the literal tail of the pattern, line 12: \.glb
Glb == Text(<<".","g","l","b">>)

F_1_2 == Prefix \o Text(<<"1","_","2">>) \o Glb
F_1_10 == Prefix \o Text(<<"1","_","1","0">>) \o Glb
F_1_02 == Prefix \o Text(<<"1","_","0","2">>) \o Glb
F_01_2 == Prefix \o Text(<<"0","1","_","2">>) \o Glb
F_suffix == Prefix \o Text(<<"1","_","3">>) \o Glb \o Text(<<".","b","a","k">>)
F_noext == Prefix \o Text(<<"1","_","2">>)
F_badagent == Prefix \o Text(<<"a","_","2">>) \o Glb
F_badidx == Prefix \o Text(<<"1","_","x">>) \o Glb
F_otherprefix == Text(<<"x">>) \o Prefix \o Text(<<"1","_","2">>) \o Glb
\* agent U+0661 and index U+0662: the Arabic-Indic digits one and two
F_arabic == Prefix \o <<1633>> \o Text(<<"_">>) \o <<1634>> \o Glb
F_random == Text(<<"r","a","n","d","o","m",".","t","x","t">>)
\* a directory nested inside a subdirectory of the root
NestedDir == Text(<<"0">>)

\* the names an entry of a subdirectory may have
Catalogue == {F_1_2, F_1_10, F_1_02, F_01_2, F_suffix, F_noext, F_badagent,
              F_badidx, F_otherprefix, F_arabic, F_random, NestedDir}

\* a folder name of one digit
Folder0 == Text(<<"0">>)
\* a folder name with a quote, a tab, U+00E9 and U+1F600 in it
FolderOdd == Text(<<"q","\"">>) \o <<9, 233, 128512>>

\* the names an entry of the root may have
RootNames == {Folder0, FolderOdd}

(***************************************************************************)
(* The tree on disk.  The root is absent, a regular file, or a directory;  *)
(* a directory is readable (os.listdir succeeds) or not (os.listdir        *)
(* raises).  An entry of the root is a regular file or a directory; the    *)
(* script never looks at the kind of an entry of a subdirectory, so a      *)
(* subdirectory holds a set of names.                                      *)
(***************************************************************************)
ChildSets == {c \in SUBSET Catalogue : Cardinality(c) <= MaxFiles}

EntryVals == {[kind |-> "file"], [kind |-> "dir", readable |-> FALSE]}
             \cup {[kind |-> "dir", readable |-> TRUE, children |-> c] : c \in ChildSets}

NumChildren(e) == IF e.kind = "dir" /\ e.readable THEN Cardinality(e.children) ELSE 0

RECURSIVE SumChildren(_, _)
SumChildren(entries, names) ==
    IF names = {} THEN 0
    ELSE LET n == CHOOSE x \in names : TRUE
         IN  NumChildren(entries[n]) + SumChildren(entries, names \ {n})

EntryMaps == {e \in UNION {[S -> EntryVals] : S \in SUBSET RootNames} :
                 SumChildren(e, DOMAIN e) <= MaxFiles}

Trees == {[kind |-> "absent"], [kind |-> "file"], [kind |-> "dir", readable |-> FALSE]}
         \cup {[kind |-> "dir", readable |-> TRUE, entries |-> e] : e \in EntryMaps}

\* the content of the output file: absent, or a text
NoFile == [exists |-> FALSE]
FileOf(text) == [exists |-> TRUE, text |-> text]
Stale == Text(<<"s","t","a","l","e">>)

(***************************************************************************)
(* Library functions the script calls.                                     *)
(***************************************************************************)
\* variant: the existence check left out
PathExistsAlways(node) == TRUE

\* variant: os.path.isdir in place of os.path.exists
PathExistsDir(node) == node.kind = "dir"

\* os.path.exists(path)
PathExists(node) == node.kind # "absent"

\* variant: os.path.exists in place of os.path.isdir
IsDirExists(node) == node.kind # "absent"

\* os.path.isdir(path)
IsDir(node) == node.kind = "dir"

\* whether os.listdir(path) returns; it raises NotADirectoryError on a file
\* and PermissionError on a directory that cannot be read
ListDirError(node) ==
    IF node.kind = "dir" THEN (IF node.readable THEN "none" ELSE "PermissionError")
    ELSE IF node.kind = "file" THEN "NotADirectoryError"
    ELSE "FileNotFoundError"

\* the orders in which os.listdir may return the names of set S
Orders(S) == {q \in [1..Cardinality(S) -> S] : \A i, j \in DOMAIN q : i # j => q[i] # q[j]}

\* literal lit occurs in s at position p
LiteralAt(s, p, lit) ==
    /\ p + Len(lit) - 1 <= Len(s)
    /\ \A i \in 1..Len(lit) : s[p + i - 1] = lit[i]

\* \d+ is greedy: the first position after the longest run of digits from p.
\* What follows \d+ in the pattern is never a digit, so no shorter run matches.
RECURSIVE DigitRunEnd(_, _)
DigitRunEnd(s, p) ==
    IF p <= Len(s) /\ s[p] \in Digits THEN DigitRunEnd(s, p + 1) ELSE p

NoMatch == [ok |-> FALSE]

\* pattern.match(fname), line 12 and 23: anchored at the start of fname only
Match(fname) ==
    IF ~LiteralAt(fname, 1, Prefix) THEN NoMatch
    ELSE LET a0 == Len(Prefix) + 1
             a1 == DigitRunEnd(fname, a0)
         IN  IF a1 = a0 \/ ~LiteralAt(fname, a1, <<Underscore>>) THEN NoMatch
             ELSE LET i0 == a1 + 1
                      i1 == DigitRunEnd(fname, i0)
                  IN  IF i1 = i0 \/ ~LiteralAt(fname, i1, Glb) THEN NoMatch
                      ELSE [ok |-> TRUE,
                            g1 |-> SubSeq(fname, a0, a1 - 1),
                            g2 |-> SubSeq(fname, i0, i1 - 1),
                            end |-> i1 + Len(Glb) - 1]

\* the value int() gives a decimal digit: its place in its block
DigitVal(c) == c - (CHOOSE z \in DigitZeros : c \in z..(z + 9))

\* int(digits), line 26 and 36
RECURSIVE IntOf(_)
IntOf(ds) ==
    IF ds = <<>> THEN 0
    ELSE 10 * IntOf(SubSeq(ds, 1, Len(ds) - 1)) + DigitVal(ds[Len(ds)])

(***************************************************************************)
(* Python dicts: sequences of [key, val] in insertion order.               *)
(***************************************************************************)
Keys(d) == {d[i].key : i \in DOMAIN d}

\* k in d
Has(d, k) == k \in Keys(d)

\* d[k]
Get(d, k) == d[CHOOSE i \in DOMAIN d : d[i].key = k].val

\* d[k] = v
Put(d, k, v) ==
    IF Has(d, k)
    THEN [i \in DOMAIN d |-> IF d[i].key = k THEN [key |-> k, val |-> v] ELSE d[i]]
    ELSE Append(d, [key |-> k, val |-> v])

\* the elements of a list
Elems(l) == {l[i] : i \in DOMAIN l}

(***************************************************************************)
(* Line 36: list.sort(key = lambda x: int(pattern.match(x).group(2))).     *)
(* list.sort is stable: elements of equal key keep their order.            *)
(***************************************************************************)
\* variant: the key without int(), so that the lists are sorted as text; the
\* rank of a digit string orders as the string does among strings of <= w digits
RECURSIVE TextRank(_, _)
TextRank(ds, w) ==
    IF w = 0 THEN 0
    ELSE (IF ds = <<>> THEN 0 ELSE DigitVal(Head(ds)) + 1) * 11^(w - 1)
         + TextRank(IF ds = <<>> THEN <<>> ELSE Tail(ds), w - 1)

SortKeyText(x) == TextRank(Match(x).g2, 4)

SortKey(x) == IntOf(Match(x).g2)

\* x put into the sorted list l behind every element whose key is <= its own
InsertSorted(l, x) ==
    LET n == Cardinality({i \in DOMAIN l : SortKey(l[i]) <= SortKey(x)})
    IN  SubSeq(l, 1, n) \o <<x>> \o SubSeq(l, n + 1, Len(l))

RECURSIVE ListSort(_)
ListSort(l) ==
    IF l = <<>> THEN <<>>
    ELSE InsertSorted(ListSort(SubSeq(l, 1, Len(l) - 1)), l[Len(l)])

\* variant: the sort left out
SortAgentsNone(d) == d

\* lines 34-36: every agent's list of one folder's dict sorted
SortAgents(d) == [i \in DOMAIN d |-> [key |-> d[i].key, val |-> ListSort(d[i].val)]]

(***************************************************************************)
(* Python values as json sees them: a str, a list or a dict.               *)
(***************************************************************************)
JStr(s) == [type |-> "str", v |-> s]
JList(items) == [type |-> "list", v |-> items]
JDict(members) == [type |-> "dict", v |-> members]

\* the manifest as a value: dict of dict of list of str
ManifestValue(m) ==
    JDict([i \in DOMAIN m |->
        [key |-> m[i].key,
         val |-> JDict([j \in DOMAIN m[i].val |->
             [key |-> m[i].val[j].key,
              val |-> JList([k \in DOMAIN m[i].val[j].val |->
                                JStr(m[i].val[j].val[k])])]])]])

(***************************************************************************)
(* Line 39: json.dump(manifest, f, indent=2).  With an indent the encoder  *)
(* puts every member and item on a line of its own, separates them with a  *)
(* comma, a key from its value with a colon and a space, and writes an     *)
(* empty dict as {} and an empty list as [].  ensure_ascii is on: every    *)
(* character outside U+0020..U+007E, the quote and the backslash are       *)
(* written as escapes.                                                     *)
(***************************************************************************)
IndentWidth == 2

NewLine(level) == <<10>> \o [i \in 1..(IndentWidth * level) |-> Space]

HexDigits == Text(<<"0","1","2","3","4","5","6","7","8","9","a","b","c","d","e","f">>)

\* \uXXXX of a 16-bit code unit, in lower-case hexadecimal
EscapeUnit(n) ==
    Text(<<"\\", "u">>)
    \o <<HexDigits[(n \div 4096) + 1], HexDigits[((n \div 256) % 16) + 1],
         HexDigits[((n \div 16) % 16) + 1], HexDigits[(n % 16) + 1]>>

\* variant: strings written without escapes
EscapeCharNone(c) == <<c>>

\* the text of one character of a string; a character beyond U+FFFF is
\* written as its surrogate pair
EscapeChar(c) ==
    IF c = Quote THEN <<Backslash, Quote>>
    ELSE IF c = Backslash THEN <<Backslash, Backslash>>
    ELSE IF c = 10 THEN <<Backslash, Ord("n")>>
    ELSE IF c = 13 THEN <<Backslash, Ord("r")>>
    ELSE IF c = 9 THEN <<Backslash, Ord("t")>>
    ELSE IF c = 12 THEN <<Backslash, Ord("f")>>
    ELSE IF c = 8 THEN <<Backslash, Ord("b")>>
    ELSE IF c >= 32 /\ c <= 126 THEN <<c>>
    ELSE IF c < 65536 THEN EscapeUnit(c)
    ELSE EscapeUnit(55296 + ((c - 65536) \div 1024))
         \o EscapeUnit(56320 + ((c - 65536) % 1024))

RECURSIVE Escape(_)
Escape(s) == IF s = <<>> THEN <<>> ELSE EscapeChar(Head(s)) \o Escape(Tail(s))

DumpString(s) == <<Quote>> \o Escape(s) \o <<Quote>>

\* the texts of parts joined by sep
RECURSIVE Join(_, _)
Join(parts, sep) ==
    IF Len(parts) = 1 THEN parts[1]
    ELSE parts[1] \o sep \o Join(Tail(parts), sep)

Bracketed(open, parts, close, level) ==
    IF parts = <<>> THEN <<open, close>>
    ELSE <<open>> \o NewLine(level + 1)
         \o Join(parts, <<Comma>> \o NewLine(level + 1))
         \o NewLine(level) \o <<close>>

RECURSIVE DumpValue(_, _)
DumpValue(x, level) ==
    IF x.type = "str" THEN DumpString(x.v)
    ELSE IF x.type = "list"
    THEN Bracketed(LeftBracket, [i \in DOMAIN x.v |-> DumpValue(x.v[i], level + 1)],
                   RightBracket, level)
    ELSE Bracketed(LeftBrace, [i \in DOMAIN x.v |->
                                  DumpString(x.v[i].key) \o <<Colon, Space>>
                                  \o DumpValue(x.v[i].val, level + 1)],
                   RightBrace, level)

JsonDump(m) == DumpValue(ManifestValue(m), 0)

(***************************************************************************)
(* json.load, the standard reader of the text that line 39 writes.         *)
(***************************************************************************)
Fail == [ok |-> FALSE]
Parsed(v, p) == [ok |-> TRUE, val |-> v, pos |-> p]

\* white space between tokens: space, tab, line feed, carriage return
RECURSIVE SkipWs(_, _)
SkipWs(t, p) == IF p <= Len(t) /\ t[p] \in {32, 9, 10, 13} THEN SkipWs(t, p + 1) ELSE p

\* the value of a hexadecimal digit of either case, -1 of another character
HexVal(c) ==
    IF c >= Ord("0") /\ c <= Ord("9") THEN c - Ord("0")
    ELSE IF c >= Ord("a") /\ c <= Ord("f") THEN c - Ord("a") + 10
    ELSE IF c >= Ord("A") /\ c <= Ord("F") THEN c - Ord("A") + 10
    ELSE -1

\* the code unit the four hexadecimal digits at p spell, -1 if they are not
\* four hexadecimal digits
Hex4(t, p) ==
    IF p + 3 > Len(t) \/ \E i \in 0..3 : HexVal(t[p + i]) < 0 THEN -1
    ELSE 4096 * HexVal(t[p]) + 256 * HexVal(t[p + 1]) + 16 * HexVal(t[p + 2])
         + HexVal(t[p + 3])

\* the character a one-letter escape stands for, -1 if the letter is none
Unescaped(c) ==
    IF c = Quote \/ c = Backslash \/ c = Ord("/") THEN c
    ELSE IF c = Ord("b") THEN 8
    ELSE IF c = Ord("f") THEN 12
    ELSE IF c = Ord("n") THEN 10
    ELSE IF c = Ord("r") THEN 13
    ELSE IF c = Ord("t") THEN 9
    ELSE -1

\* the characters of a string up to its closing quote; p is behind the opening
\* one.  A raw control character ends the parse with an error; \uXXXX of a
\* high surrogate followed by \uXXXX of a low surrogate is one character.
RECURSIVE ReadString(_, _, _)
ReadString(t, p, acc) ==
    IF p > Len(t) THEN Fail
    ELSE IF t[p] = Quote THEN Parsed(acc, p + 1)
    ELSE IF t[p] < 32 THEN Fail
    ELSE IF t[p] = Backslash
    THEN IF p + 1 > Len(t) THEN Fail
         ELSE IF t[p + 1] = Ord("u")
         THEN LET u == Hex4(t, p + 2)
                  u2 == IF LiteralAt(t, p + 6, Text(<<"\\", "u">>))
                        THEN Hex4(t, p + 8) ELSE -1
              IN  IF u < 0 THEN Fail
                  ELSE IF u >= 55296 /\ u <= 56319 /\ u2 >= 56320 /\ u2 <= 57343
                  THEN ReadString(t, p + 12,
                           Append(acc, 65536 + (u - 55296) * 1024 + (u2 - 56320)))
                  ELSE ReadString(t, p + 6, Append(acc, u))
         ELSE IF Unescaped(t[p + 1]) >= 0
         THEN ReadString(t, p + 2, Append(acc, Unescaped(t[p + 1])))
         ELSE Fail
    ELSE ReadString(t, p + 1, Append(acc, t[p]))

RECURSIVE ParseValue(_, _)
RECURSIVE ParseMembers(_, _, _)
RECURSIVE ParseItems(_, _, _)

ParseValue(t, p0) ==
    LET p == SkipWs(t, p0)
    IN  IF p > Len(t) THEN Fail
        ELSE IF t[p] = Quote
        THEN LET r == ReadString(t, p + 1, <<>>)
             IN  IF r.ok THEN Parsed(JStr(r.val), r.pos) ELSE Fail
        ELSE IF t[p] = LeftBrace
        THEN LET q == SkipWs(t, p + 1)
             IN  IF q <= Len(t) /\ t[q] = RightBrace THEN Parsed(JDict(<<>>), q + 1)
                 ELSE ParseMembers(t, q, <<>>)
        ELSE IF t[p] = LeftBracket
        THEN LET q == SkipWs(t, p + 1)
             IN  IF q <= Len(t) /\ t[q] = RightBracket THEN Parsed(JList(<<>>), q + 1)
                 ELSE ParseItems(t, q, <<>>)
        ELSE Fail

\* "key": value, ... }   A key met again replaces the value it had.
ParseMembers(t, p0, acc) ==
    LET p == SkipWs(t, p0)
    IN  IF p > Len(t) \/ t[p] # Quote THEN Fail
        ELSE LET k == ReadString(t, p + 1, <<>>)
             IN  IF ~k.ok THEN Fail
                 ELSE LET c == SkipWs(t, k.pos)
                      IN  IF c > Len(t) \/ t[c] # Colon THEN Fail
                          ELSE LET v == ParseValue(t, c + 1)
                               IN  IF ~v.ok THEN Fail
                                   ELSE LET e == SkipWs(t, v.pos)
                                            got == Put(acc, k.val, v.val)
                                        IN  IF e > Len(t) THEN Fail
                                            ELSE IF t[e] = RightBrace THEN Parsed(JDict(got), e + 1)
                                            ELSE IF t[e] = Comma THEN ParseMembers(t, e + 1, got)
                                            ELSE Fail

\* value, ... ]
ParseItems(t, p0, acc) ==
    LET v == ParseValue(t, p0)
    IN  IF ~v.ok THEN Fail
        ELSE LET e == SkipWs(t, v.pos)
                 got == Append(acc, v.val)
             IN  IF e > Len(t) THEN Fail
                 ELSE IF t[e] = RightBracket THEN Parsed(JList(got), e + 1)
                 ELSE IF t[e] = Comma THEN ParseItems(t, e + 1, got)
                 ELSE Fail

\* the value a text parses to; nothing but white space may follow it
JsonLoad(t) ==
    LET r == ParseValue(t, 1)
    IN  IF r.ok /\ SkipWs(t, r.pos) > Len(t) THEN r ELSE Fail

(***************************************************************************)
(* The script, lines 5-41.                                                 *)
(***************************************************************************)
MANIFEST_FILE == Text(<<"a","s","s","e","t","s","_","m","a","n","i","f","e","s","t",
                        ".","j","s","o","n">>)

\* the node os.path.join(ASSETS_DIR, name) names
FolderPath(name) == root.entries[name]

\* variant: the agent identifier read as a number, leading zeros lost
RECURSIVE StripZeros(_)
StripZeros(ds) == IF Len(ds) > 1 /\ DigitVal(Head(ds)) = 0 THEN StripZeros(Tail(ds)) ELSE ds

AddFileIntAgent(m, folder, fname) ==
    LET agent == StripZeros(m.g1)
        inner == Get(manifest, folder)
        inner2 == IF ~Has(inner, agent) THEN Put(inner, agent, <<>>) ELSE inner
    IN  Put(manifest, folder, Put(inner2, agent, Append(Get(inner2, agent), fname)))

\* lines 25-31: fname, which the pattern matched as m, filed under its agent
AddFile(m, folder, fname) ==
    LET agent == m.g1
        inner == Get(manifest, folder)
        inner2 == IF ~Has(inner, agent) THEN Put(inner, agent, <<>>) ELSE inner
    IN  Put(manifest, folder, Put(inner2, agent, Append(Get(inner2, agent), fname)))

\* the state a run of the script starts in: line 8, manifest = {}
Init ==
    /\ root \in Trees
    /\ outFile \in {NoFile, FileOf(Stale)}
    /\ fileBefore = outFile
    /\ manifest = <<>>
    /\ pc = "exists"
    /\ folders = <<>>
    /\ folder_name = <<>>
    /\ fnames = <<>>
    /\ err = "none"
    /\ stdout = <<>>
    /\ run = 1
    /\ prev = <<>>

\* line 14: if os.path.exists(ASSETS_DIR)
CheckExists ==
    /\ pc = "exists"
    /\ pc' = IF PathExists(root) THEN "listroot" ELSE "write"
    /\ UNCHANGED <<root, outFile, fileBefore, manifest, folders, folder_name,
                   fnames, err, stdout, run, prev>>

\* line 15: os.listdir(ASSETS_DIR) returns the names in some order, or raises
ListRoot ==
    /\ pc = "listroot"
    /\ IF ListDirError(root) = "none"
       THEN /\ folders' \in Orders(DOMAIN root.entries)
            /\ pc' = "folder"
            /\ err' = err
       ELSE /\ pc' = "crashed"
            /\ err' = ListDirError(root)
            /\ folders' = folders
    /\ UNCHANGED <<root, outFile, fileBefore, manifest, folder_name, fnames,
                   stdout, run, prev>>

\* lines 15-20: the next name of the root; a directory gets its key
NextFolder ==
    /\ pc = "folder"
    /\ IF folders = <<>>
       THEN /\ pc' = "write"
            /\ UNCHANGED <<folders, folder_name, manifest>>
       ELSE /\ folder_name' = Head(folders)
            /\ folders' = Tail(folders)
            /\ IF IsDir(FolderPath(Head(folders)))
               THEN /\ manifest' = IF ~Has(manifest, Head(folders))
                                   THEN Put(manifest, Head(folders), <<>>)
                                   ELSE manifest
                    /\ pc' = "listfolder"
               ELSE /\ manifest' = manifest
                    /\ pc' = "folder"
    /\ UNCHANGED <<root, outFile, fileBefore, fnames, err, stdout, run, prev>>

\* line 22: os.listdir(folder_path) returns the names in some order, or raises
ListFolder ==
    /\ pc = "listfolder"
    /\ IF ListDirError(FolderPath(folder_name)) = "none"
       THEN /\ fnames' \in Orders(FolderPath(folder_name).children)
            /\ pc' = "file"
            /\ err' = err
       ELSE /\ pc' = "crashed"
            /\ err' = ListDirError(FolderPath(folder_name))
            /\ fnames' = fnames
    /\ UNCHANGED <<root, outFile, fileBefore, manifest, folders, folder_name,
                   stdout, run, prev>>

\* lines 22-31: the next name of the folder; a name the pattern matches is
\* appended to its agent's list
NextFile ==
    /\ pc = "file"
    /\ IF fnames = <<>>
       THEN /\ pc' = "sort"
            /\ UNCHANGED <<fnames, manifest>>
       ELSE /\ fnames' = Tail(fnames)
            /\ pc' = "file"
            /\ manifest' = IF Match(Head(fnames)).ok
                           THEN AddFile(Match(Head(fnames)), folder_name, Head(fnames))
                           ELSE manifest
    /\ UNCHANGED <<root, outFile, fileBefore, folders, folder_name, err, stdout,
                   run, prev>>

\* variant: a folder without agents dropped from the manifest
SortFolderDropEmpty ==
    /\ pc = "sort"
    /\ manifest' = IF Get(manifest, folder_name) = <<>>
                   THEN SelectSeq(manifest, LAMBDA e : e.key # folder_name)
                   ELSE Put(manifest, folder_name, SortAgents(Get(manifest, folder_name)))
    /\ pc' = "folder"
    /\ UNCHANGED <<root, outFile, fileBefore, folders, folder_name, fnames, err,
                   stdout, run, prev>>

\* variant: the file written inside the folder loop
SortFolderAndWrite ==
    /\ pc = "sort"
    /\ manifest' = Put(manifest, folder_name, SortAgents(Get(manifest, folder_name)))
    /\ outFile' = FileOf(JsonDump(manifest'))
    /\ pc' = "folder"
    /\ UNCHANGED <<root, fileBefore, folders, folder_name, fnames, err,
                   stdout, run, prev>>

\* lines 33-36: every agent's list of the folder sorted by index
SortFolder ==
    /\ pc = "sort"
    /\ manifest' = Put(manifest, folder_name, SortAgents(Get(manifest, folder_name)))
    /\ pc' = "folder"
    /\ UNCHANGED <<root, outFile, fileBefore, folders, folder_name, fnames, err,
                   stdout, run, prev>>

\* lines 38-39: open(MANIFEST_FILE, 'w') and json.dump
WriteManifest ==
    /\ pc = "write"
    /\ outFile' = FileOf(JsonDump(manifest))
    /\ pc' = "report"
    /\ UNCHANGED <<root, fileBefore, manifest, folders, folder_name, fnames, err,
                   stdout, run, prev>>

\* line 41: the summary line
Report ==
    /\ pc = "report"
    /\ stdout' = Append(stdout, [file |-> MANIFEST_FILE, folders |-> Len(manifest)])
    /\ pc' = "done"
    /\ UNCHANGED <<root, outFile, fileBefore, manifest, folders, folder_name,
                   fnames, err, run, prev>>

Next ==
    \/ CheckExists
    \/ ListRoot
    \/ NextFolder
    \/ ListFolder
    \/ NextFile
    \/ SortFolder
    \/ WriteManifest
    \/ Report

Spec == Init /\ [][Next]_vars

(***************************************************************************)
(* The script run again on the unmodified tree: a new process starts with  *)
(* an empty manifest (line 8) and finds the file the run before wrote.     *)
(* prev keeps the manifest of the run before, for comparison.              *)
(***************************************************************************)
Rerun ==
    /\ pc = "done"
    /\ run < MaxRuns
    /\ run' = run + 1
    /\ prev' = manifest
    /\ manifest' = <<>>
    /\ fileBefore' = outFile
    /\ pc' = "exists"
    /\ folders' = <<>>
    /\ folder_name' = <<>>
    /\ fnames' = <<>>
    /\ stdout' = <<>>
    /\ UNCHANGED <<root, outFile, err>>

\* the names of the trees the script is run on repeatedly
RerunNames == {F_1_2, F_1_10, F_1_02, F_01_2, F_suffix, F_arabic, F_random}

InitRerun ==
    /\ Init
    /\ root.kind = "dir"
    /\ root.readable
    /\ \A n \in DOMAIN root.entries :
          root.entries[n].kind = "dir" =>
              /\ root.entries[n].readable
              /\ root.entries[n].children \subseteq RerunNames

NextRerun ==
    \/ Next
    \/ Rerun

SpecRerun == InitRerun /\ [][NextRerun]_vars

(***************************************************************************)
(* Vocabulary of the statements below.  These definitions read names the   *)
(* way the specification words them and use none of the operators above    *)
(* that model the script's calls.                                          *)
(***************************************************************************)
AllDigits(s, from, to) == \A i \in from..to : s[i] \in Digits

\* s starts with Prefix, n1 digits, an underscore, n2 digits and .glb
HasForm(s, n1, n2) ==
    LET L == Len(Prefix)
    IN  /\ Len(s) >= L + n1 + 1 + n2 + Len(Glb)
        /\ SubSeq(s, 1, L) = Prefix
        /\ AllDigits(s, L + 1, L + n1)
        /\ s[L + n1 + 1] = Underscore
        /\ AllDigits(s, L + n1 + 2, L + n1 + 1 + n2)
        /\ SubSeq(s, L + n1 + n2 + 2, L + n1 + n2 + 1 + Len(Glb)) = Glb

\* "a filename matches if it has the literal form ..., anchored at the start"
Matching(s) == \E n1, n2 \in 1..Len(s) : HasForm(s, n1, n2)

\* the whole of s is obj_mesh_placed_agent<digits>_<digits>.glb
LiteralForm(s) ==
    \E n1, n2 \in 1..Len(s) :
        HasForm(s, n1, n2) /\ Len(s) = Len(Prefix) + n1 + 1 + n2 + Len(Glb)

AgentLen(s) == CHOOSE n1 \in 1..Len(s) : \E n2 \in 1..Len(s) : HasForm(s, n1, n2)
IndexLen(s) == CHOOSE n2 \in 1..Len(s) : HasForm(s, AgentLen(s), n2)

\* the agent identifier of a matching name: its first run of digits, as text
AgentOf(s) == SubSeq(s, Len(Prefix) + 1, Len(Prefix) + AgentLen(s))

\* the second run of digits of a matching name, as text
IndexText(s) ==
    SubSeq(s, Len(Prefix) + AgentLen(s) + 2, Len(Prefix) + AgentLen(s) + 1 + IndexLen(s))

\* the value of a decimal digit: how far it is behind the zero of its block
DigitOf(c) == CHOOSE d \in 0..9 : (c - d) \in DigitZeros

RECURSIVE Pow10(_)
Pow10(n) == IF n = 0 THEN 1 ELSE 10 * Pow10(n - 1)

RECURSIVE Numeral(_)
Numeral(ds) ==
    IF ds = <<>> THEN 0
    ELSE DigitOf(Head(ds)) * Pow10(Len(ds) - 1) + Numeral(Tail(ds))

\* the numeric index of a matching name
IndexOf(s) == Numeral(IndexText(s))

\* the immediate subdirectories of the root
ImmediateSubdirs ==
    IF root.kind = "dir" /\ root.readable
    THEN {n \in DOMAIN root.entries : root.entries[n].kind = "dir"}
    ELSE {}

\* the entries of folder n of the root
Children(n) == root.entries[n].children

\* the matching entries of folder n that carry agent identifier a
FilesOf(n, a) == {f \in Children(n) : Matching(f) /\ AgentOf(f) = a}

\* the traversal is over: the manifest is finished
Finished == pc \in {"write", "report", "done"}

\* every list of the manifest, with its folder and agent
Lists ==
    UNION {{<<manifest[i].key, manifest[i].val[j].key, manifest[i].val[j].val>> :
               j \in DOMAIN manifest[i].val} : i \in DOMAIN manifest}

Ascending(l) == \A i, j \in DOMAIN l : i < j => IndexOf(l[i]) <= IndexOf(l[j])
StrictlyAscending(l) == \A i, j \in DOMAIN l : i < j => IndexOf(l[i]) < IndexOf(l[j])
DistinctIndices(S) == \A f, g \in S : f # g => IndexOf(f) # IndexOf(g)

(***************************************************************************)
(* The claims.                                                             *)
(***************************************************************************)

\* C1: the top-level keys of the manifest are exactly the names of the
\* immediate subdirectories of the root: at no time is a non-directory entry
\* of the root or a nested directory a key, and once the traversal of an
\* existing root directory is over every immediate subdirectory is a key.
C1_KeysAreSubdirs ==
    /\ Keys(manifest) \subseteq ImmediateSubdirs
    /\ (Finished /\ root.kind = "dir") => Keys(manifest) = ImmediateSubdirs

\* a finished run over a root that holds a regular file and a subdirectory
\* with a nested directory in it: the subdirectory alone is a key
C1_Witness ==
    /\ pc = "done"
    /\ root.kind = "dir"
    /\ \E n, m \in DOMAIN root.entries :
          /\ root.entries[n].kind = "file"
          /\ m \in ImmediateSubdirs
          /\ NestedDir \in Children(m)
          /\ NestedDir \notin Keys(manifest)
          /\ Keys(manifest) = {m}

\* C2: a filename that does not have the literal form
\* obj_mesh_placed_agent<digits>_<digits>.glb (extra characters after .glb
\* included) never appears in any agent's list of any folder.
C2_OnlyLiteralForm ==
    \A t \in Lists : \A i \in DOMAIN t[3] : LiteralForm(t[3][i])

\* C3: in the finished manifest every agent's list is ascending by the numeric
\* index of its filenames, and an agent with N matching files of pairwise
\* distinct numeric indices has a strictly ascending list of length N.
C3_SortedByIndex ==
    Finished =>
        \A t \in Lists :
            /\ Ascending(t[3])
            /\ DistinctIndices(FilesOf(t[1], t[2])) =>
                  /\ Len(t[3]) = Cardinality(FilesOf(t[1], t[2]))
                  /\ StrictlyAscending(t[3])

\* a finished list in which index 10 comes after index 2
C3_Witness ==
    /\ pc = "done"
    /\ \E t \in Lists :
          /\ Len(t[3]) >= 2
          /\ DistinctIndices(FilesOf(t[1], t[2]))
          /\ t[3][1] = F_1_2
          /\ t[3][Len(t[3])] = F_1_10

\* C4: in the finished manifest, the list manifest[F][a] holds exactly the
\* matching entries of folder F whose agent identifier is the digit string a,
\* each once; so an entry of F is in no other agent's list, no list holds an
\* entry of another folder, and no agent key is without a matching file.
C4_EachMatchOnce ==
    Finished =>
        /\ \A t \in Lists :
              /\ \A i, j \in DOMAIN t[3] : i # j => t[3][i] # t[3][j]
              /\ Elems(t[3]) = FilesOf(t[1], t[2])
              /\ t[3] # <<>>
        /\ \A n \in ImmediateSubdirs : \A f \in Children(n) :
              Matching(f) => /\ Has(manifest, n)
                             /\ Has(Get(manifest, n), AgentOf(f))

\* a finished folder with the agents "01" and "1" under keys of their own, and
\* another folder that got none of its entries
C4_Witness ==
    /\ pc = "done"
    /\ \E n, m \in Keys(manifest) :
          /\ n # m
          /\ Keys(Get(manifest, n)) = {Text(<<"1">>), Text(<<"0", "1">>)}
          /\ Get(Get(manifest, n), Text(<<"0", "1">>)) = <<F_01_2>>
          /\ Get(Get(manifest, n), Text(<<"1">>)) = <<F_1_2>>
          /\ Get(manifest, m) = <<>>

\* C5: when the root does not exist the run raises no error and runs to its
\* end, the manifest is empty, and the output file is written with {}.
C5_AbsentRoot ==
    root.kind = "absent" =>
        /\ pc # "crashed"
        /\ err = "none"
        /\ manifest = <<>>
        /\ pc = "done" \/ ENABLED Next
        /\ pc \in {"report", "done"} => outFile = FileOf(Text(<<"{", "}">>))

\* a run without a root that has replaced a stale output file
C5_Witness ==
    /\ root.kind = "absent"
    /\ pc = "done"
    /\ fileBefore = FileOf(Stale)
    /\ outFile = FileOf(Text(<<"{", "}">>))

\* C6: every immediate subdirectory of the root without a matching entry is a
\* key of the finished manifest and maps to an empty mapping of agents.
C6_EmptyFolders ==
    Finished =>
        \A n \in ImmediateSubdirs :
            (\A f \in Children(n) : ~Matching(f)) =>
                /\ Has(manifest, n)
                /\ Get(manifest, n) = <<>>

\* a finished run with an empty folder and a folder of non-matching entries
C6_Witness ==
    /\ pc = "done"
    /\ \E n, m \in ImmediateSubdirs :
          /\ Children(n) = {}
          /\ Children(m) # {}
          /\ \A f \in Children(m) : ~Matching(f)
          /\ Get(manifest, n) = <<>>
          /\ Get(manifest, m) = <<>>

\* two lists with the same filenames that differ at most in the order of
\* filenames of the same numeric index
SameUpToTies(l1, l2) ==
    /\ Len(l1) = Len(l2)
    /\ Elems(l1) = Elems(l2)
    /\ \A i \in DOMAIN l1 : IndexOf(l1[i]) = IndexOf(l2[i])

\* two manifests with the same folder keys, the same agent keys and the same
\* lists up to ties
SameManifest(m1, m2) ==
    /\ Keys(m1) = Keys(m2)
    /\ \A n \in Keys(m1) :
          /\ Keys(Get(m1, n)) = Keys(Get(m2, n))
          /\ \A a \in Keys(Get(m1, n)) :
                SameUpToTies(Get(Get(m1, n), a), Get(Get(m2, n), a))

\* C7: a second run on the unmodified tree yields the manifest of the first,
\* whatever orders the directory listings come in, up to the order of
\* filenames of one agent that share a numeric index.
C7_Deterministic ==
    (run > 1 /\ Finished) => SameManifest(prev, manifest)

\* a second run that met the names in another order than the first
C7_Witness ==
    /\ run = 2
    /\ pc = "done"
    /\ prev # manifest
    /\ \E t \in Lists : Len(t[3]) >= 2 /\ StrictlyAscending(t[3])

\* two values are equal as Python compares them: dicts as mappings (same key
\* sets, equal values), lists in order
RECURSIVE PyEq(_, _)
PyEq(a, b) ==
    /\ a.type = b.type
    /\ IF a.type = "str" THEN a.v = b.v
       ELSE IF a.type = "list"
       THEN /\ Len(a.v) = Len(b.v)
            /\ \A i \in DOMAIN a.v : PyEq(a.v[i], b.v[i])
       ELSE /\ Keys(a.v) = Keys(b.v)
            /\ Len(a.v) = Len(b.v)
            /\ \A k \in Keys(a.v) : PyEq(Get(a.v, k), Get(b.v, k))

\* C8: once the file is written its text parses back to a value equal to the
\* manifest, whatever the file held before the run.
C8_RoundTrip ==
    pc \in {"report", "done"} =>
        /\ outFile.exists
        /\ JsonLoad(outFile.text).ok
        /\ PyEq(JsonLoad(outFile.text).val, ManifestValue(manifest))

\* a run that has replaced a stale file by a manifest with a key that holds a
\* quote, a tab and characters beyond ASCII
C8_Witness ==
    /\ pc = "done"
    /\ fileBefore = FileOf(Stale)
    /\ Has(manifest, FolderOdd)
    /\ \E t \in Lists : t[1] = FolderOdd /\ Len(t[3]) >= 2
    /\ Len(manifest) = 2

\* C9: the output file is written only after the traversal is over; a run in
\* which a listing fails ends in an uncaught failure with the output file as
\* it was before the run, however much of the manifest is built in memory.
C9_NoPartialWrite ==
    /\ ~Finished => outFile = fileBefore
    /\ pc = "write" => folders = <<>> /\ fnames = <<>>
    /\ pc = "crashed" => /\ err # "none"
                         /\ outFile = fileBefore
                         /\ ~ENABLED Next
    /\ Finished => \A n \in ImmediateSubdirs : root.entries[n].readable

\* a run that failed on its second folder with the first in the manifest
C9_Witness ==
    /\ pc = "crashed"
    /\ err = "PermissionError"
    /\ fileBefore = FileOf(Stale)
    /\ outFile = FileOf(Stale)
    /\ \E t \in Lists : Len(t[3]) >= 1

\* C10: when the root is a regular file the run fails at the listing of the
\* root and the output file is neither written nor modified.
C10_RootIsFile ==
    root.kind = "file" =>
        /\ pc \in {"exists", "listroot", "crashed"}
        /\ pc = "crashed" => err = "NotADirectoryError"
        /\ pc = "crashed" \/ ENABLED Next
        /\ outFile = fileBefore
        /\ manifest = <<>>

\* the failed run over a root that is a regular file
C10_Witness ==
    /\ root.kind = "file"
    /\ pc = "crashed"
    /\ err = "NotADirectoryError"
    /\ outFile = fileBefore

====
